---- MODULE Spec2Model ----
(***************************************************************************)
(* NetworkController (app/scripts/controllers/network/network.js).         *)
(*                                                                         *)
(* The controller owns three observable stores (provider config, previous  *)
(* provider config, network status), the active provider / block tracker   *)
(* and the two swappable proxies in front of them.  Every public operation *)
(* is synchronous and is modelled as one action; the only asynchronous     *)
(* step is the callback of the 'chain.id' request issued by lookupNetwork, *)
(* modelled by ProbeResponse.                                              *)
(***************************************************************************)
EXTENDS Integers, Sequences, FiniteSets, Bags, TLC

(***************************************************************************)
(* Bounds of the model.                                                    *)
(***************************************************************************)
\* connections (provider + block tracker pairs) created in one behaviour
MaxConn == 2
\* 'chain.id' requests in flight at the same time
MaxProbes == 2

(***************************************************************************)
(* JavaScript values.                                                      *)
(***************************************************************************)
\* a key that the object does not have
Absent == "<absent>"
\* a key (or argument) whose value is undefined
Undef == "<undefined>"

\* shared/constants/network
MAINNET == "main"
BARNARD == "barnard"
NETWORK_TYPE_RPC == "rpc"
MAINNET_CHAIN_ID == "0x1"
BARNARD_CHAIN_ID == "0xfb"
INFURA_PROVIDER_TYPES == {MAINNET, BARNARD}

\* NETWORK_TYPE_TO_ID_MAP[type]?.chainId ; Undef where the table has no entry
NETWORK_TYPE_TO_ID_MAP(type) ==
  CASE type = MAINNET -> MAINNET_CHAIN_ID
    [] type = BARNARD -> BARNARD_CHAIN_ID
    [] OTHER -> Undef

NETWORK_EVENTS == [NETWORK_DID_CHANGE |-> "networkDidChange",
                   NETWORK_WILL_CHANGE |-> "networkWillChange"]

(***************************************************************************)
(* Provider configurations: plain objects with at most these keys.         *)
(***************************************************************************)
Fields == {"type", "rpcUrl", "chainId", "ticker", "nickname", "rpcPrefs"}

LOCALHOST_URL == "http://localhost:9850"

\* the three values of defaultProviderConfig, by build environment
defaultProviderConfigInTest ==
  [type |-> NETWORK_TYPE_RPC, rpcUrl |-> LOCALHOST_URL, chainId |-> "0xfe",
   ticker |-> "STC", nickname |-> "Localhost 9850", rpcPrefs |-> Absent]
defaultProviderConfigDebug ==
  [type |-> BARNARD, rpcUrl |-> Absent, chainId |-> BARNARD_CHAIN_ID,
   ticker |-> "STC", nickname |-> Absent, rpcPrefs |-> Absent]
defaultProviderConfigProd ==
  [type |-> MAINNET, rpcUrl |-> Absent, chainId |-> MAINNET_CHAIN_ID,
   ticker |-> "STC", nickname |-> Absent, rpcPrefs |-> Absent]
defaultProviderConfig ==
  {defaultProviderConfigInTest, defaultProviderConfigDebug,
   defaultProviderConfigProd}

\* opts.provider of a constructor call: a custom endpoint saved without a
\* usable chain id, the key missing or empty
suppliedProviderConfig ==
  {[type |-> NETWORK_TYPE_RPC, rpcUrl |-> LOCALHOST_URL, chainId |-> c,
    ticker |-> "STC", nickname |-> Absent, rpcPrefs |-> Absent] :
     c \in {Absent, ""}}

\* ObservableStore.updateState(partial) as the controller uses it on the two
\* config stores: the keys of partial are written over the current state,
\* the keys partial does not have keep their value
updateState(state, partial) ==
  [f \in Fields |-> IF partial[f] # Absent THEN partial[f] ELSE state[f]]

(***************************************************************************)
(* Chain id validation (shared/modules/network.utils).                     *)
(***************************************************************************)
\* the characters of the chain id strings the model uses
Chars(s) ==
  CASE s = "0xfe" -> <<"0", "x", "f", "e">>
    [] s = "0x1" -> <<"0", "x", "1">>
    [] s = "0xfb" -> <<"0", "x", "f", "b">>
    [] s = "fe" -> <<"f", "e">>
    [] s = "0xzz" -> <<"0", "x", "z", "z">>
    [] s = "0x" -> <<"0", "x">>
    [] s = "0x20000000000000" ->
         <<"0", "x", "2", "0", "0", "0", "0", "0", "0", "0",
           "0", "0", "0", "0", "0", "0">>
    [] OTHER -> <<>>

HexDigit == [c \in {"0", "1", "2", "3", "4", "5", "6", "7", "8", "9",
                    "a", "b", "c", "d", "e", "f"} |->
              CASE c = "0" -> 0 [] c = "1" -> 1 [] c = "2" -> 2
                [] c = "3" -> 3 [] c = "4" -> 4 [] c = "5" -> 5
                [] c = "6" -> 6 [] c = "7" -> 7 [] c = "8" -> 8
                [] c = "9" -> 9 [] c = "a" -> 10 [] c = "b" -> 11
                [] c = "c" -> 12 [] c = "d" -> 13 [] c = "e" -> 14
                [] c = "f" -> 15]

\* a 0x-prefixed string of one or more hex digits
isPrefixedFormattedHexString(s) ==
  LET cs == Chars(s) IN
    /\ Len(cs) >= 3
    /\ cs[1] = "0"
    /\ cs[2] = "x"
    /\ \A i \in 3..Len(cs) : cs[i] \in DOMAIN HexDigit

\* parseInt(s, 16) of a prefixed hex string: its digits, most significant
\* first, without leading zeros (the value exceeds the machine integers of
\* the checker, so it is kept as digits)
RECURSIVE StripZeros(_)
StripZeros(ds) ==
  IF Len(ds) > 1 /\ ds[1] = 0 THEN StripZeros(Tail(ds)) ELSE ds

parseInt16(s) ==
  LET cs == Chars(s) IN
    StripZeros([i \in 1..(Len(cs) - 2) |-> HexDigit[cs[i + 2]]])

\* Number.MAX_SAFE_INTEGER = 2^53 - 1 = 0x1fffffffffffff
MAX_SAFE_DIGITS == <<1, 15, 15, 15, 15, 15, 15, 15, 15, 15, 15, 15, 15, 15>>

\* a <= b for two digit sequences without leading zeros
RECURSIVE DigitsLeq(_, _)
DigitsLeq(a, b) ==
  IF Len(a) # Len(b) THEN Len(a) < Len(b)
  ELSE IF Len(a) = 0 THEN TRUE
  ELSE IF a[1] # b[1] THEN a[1] < b[1]
  ELSE DigitsLeq(Tail(a), Tail(b))

isSafeChainId(n) == DigitsLeq(n, MAX_SAFE_DIGITS)

(***************************************************************************)
(* State.                                                                  *)
(***************************************************************************)
VARIABLES
  providerStore,          \* current provider config
  previousProviderStore,  \* the one retained previous config
  networkStore,           \* 'loading' or the version a probe reported
  _provider,              \* active provider: 0 = null, else connection id
  _blockTracker,          \* active block tracker: 0 = null, else conn. id
  _providerProxy,         \* [id, target]; id 0 = null
  _blockTrackerProxy,     \* [id, target]; id 0 = null
  _infuraProjectId,       \* Undef until setInfuraProjectId succeeds
  _baseProviderParams,    \* Undef until initializeProvider
  probes,                 \* bag of the 'chain.id' requests in flight
  nConn,                  \* connections created so far
  emitted,                \* events emitted by the last operation, in order
  statusBy,               \* history: connection of the probe whose response
                          \* set networkStore; 0 if set by a switch / guard
  lastOp,                 \* history: the last operation, its argument,
                          \* the config it built, for a switch the config
                          \* it started from, and for a switch, a direct
                          \* lookupNetwork and a response the status before
  quiet                   \* environment: TRUE once the callers have made
                          \* their last call

vars == <<providerStore, previousProviderStore, networkStore, _provider,
          _blockTracker, _providerProxy, _blockTrackerProxy,
          _infuraProjectId, _baseProviderParams, probes, nConn, emitted,
          statusBy, lastOp, quiet>>

NullProxy == [id |-> 0, target |-> 0]
NoConfig == [f \in Fields |-> Absent]

\* the possible answers to 'chain.id'
Versions == {"254"}

(***************************************************************************)
(* The controller as a value: every method below maps the controller       *)
(* before the call to the controller after it.  ok = FALSE records that    *)
(* the call threw; emitted is the log of the events of the call.           *)
(***************************************************************************)
This ==
  [provider |-> providerStore, previous |-> previousProviderStore,
   network |-> networkStore, statusBy |-> statusBy,
   _provider |-> _provider, _blockTracker |-> _blockTracker,
   _providerProxy |-> _providerProxy,
   _blockTrackerProxy |-> _blockTrackerProxy,
   _infuraProjectId |-> _infuraProjectId,
   _baseProviderParams |-> _baseProviderParams,
   probes |-> probes, nConn |-> nConn, emitted |-> <<>>, ok |-> TRUE]

throw(this) == [this EXCEPT !.ok = FALSE]

getProviderConfig(this) == this.provider

getNetworkState(this) == this.network

setNetworkState(this, network) ==
  [this EXCEPT !.network = network, !.statusBy = 0]

isNetworkLoading(this) == getNetworkState(this) = "loading"

getProviderAndBlockTracker(this) ==
  [provider |-> this._providerProxy, blockTracker |-> this._blockTrackerProxy]

\* NETWORK_TYPE_TO_ID_MAP[type]?.chainId || configChainId
getCurrentChainId(this) ==
  LET cfg == getProviderConfig(this)
      fromTable == NETWORK_TYPE_TO_ID_MAP(cfg.type)
  IN IF fromTable # Undef THEN fromTable ELSE cfg.chainId

\* a JavaScript falsy value among the ones a chain id can take
Falsy(v) == v \in {Absent, Undef, ""}

\* faulty variant: without a chain id the status is left as it is
lookupNetwork_NoReset(this) ==
  IF this._provider = 0 THEN this
  ELSE IF Falsy(getCurrentChainId(this)) THEN this
  ELSE [this EXCEPT !.probes =
          @ (+) SetToBag({[initialNetwork |-> getNetworkState(this),
                           conn |-> this._provider]})]

\* lookupNetwork up to the point where the request is sent; the callback is
\* ProbeResponse
lookupNetwork(this) ==
  IF this._provider = 0 THEN this
  ELSE IF Falsy(getCurrentChainId(this))
    THEN setNetworkState(this, "loading")
  ELSE [this EXCEPT !.probes =
          @ (+) SetToBag({[initialNetwork |-> getNetworkState(this),
                           conn |-> this._provider]})]

\* faulty variant: the callback applies its result without comparing the statuses
lookupNetworkCallback_NoGuard(this, probe, err, networkVersion) ==
  IF err THEN setNetworkState(this, "loading")
  ELSE [this EXCEPT !.network = networkVersion, !.statusBy = probe.conn]

\* the callback of ethQuery.sendAsync({ method: 'chain.id' }, ...) for the
\* request probe; err = TRUE for an error, else networkVersion is the answer
lookupNetworkCallback(this, probe, err, networkVersion) ==
  LET currentNetwork == getNetworkState(this) IN
    IF probe.initialNetwork = currentNetwork
      THEN IF err THEN setNetworkState(this, "loading")
           ELSE [this EXCEPT !.network = networkVersion,
                             !.statusBy = probe.conn]
      ELSE this

\* faulty variant: no listener is registered for NETWORK_DID_CHANGE
emit_NoListener(this, event, arg) ==
  [this EXCEPT !.emitted =
     Append(@, [event |-> event, arg |-> arg, network |-> this.network,
                _provider |-> this._provider])]

\* EventEmitter.emit: the event is logged with the status and the provider
\* a listener would observe; the one listener the constructor registers is
\* lookupNetwork on NETWORK_DID_CHANGE
emit(this, event, arg) ==
  LET logged == [this EXCEPT !.emitted =
                   Append(@, [event |-> event, arg |-> arg,
                              network |-> this.network,
                              _provider |-> this._provider])]
  IN IF event = NETWORK_EVENTS.NETWORK_DID_CHANGE
       THEN lookupNetwork(logged)
       ELSE logged

\* faulty variant: new proxies are created on every call
_setProviderAndBlockTracker_NewProxies(this, provider, blockTracker) ==
  [this EXCEPT
     !._providerProxy = [id |-> provider, target |-> provider],
     !._blockTrackerProxy = [id |-> blockTracker, target |-> blockTracker],
     !._provider = provider,
     !._blockTracker = blockTracker]

_setProviderAndBlockTracker(this, provider, blockTracker) ==
  [this EXCEPT
     !._providerProxy =
        IF @.id # 0 THEN [@ EXCEPT !.target = provider]
        ELSE [id |-> provider, target |-> provider],
     !._blockTrackerProxy =
        IF @.id # 0 THEN [@ EXCEPT !.target = blockTracker]
        ELSE [id |-> blockTracker, target |-> blockTracker],
     !._provider = provider,
     !._blockTracker = blockTracker]

\* a new engine + provider and the client's block tracker: a connection
\* with a fresh identity
_setNetworkClient(this) ==
  LET fresh == this.nConn + 1 IN
    _setProviderAndBlockTracker([this EXCEPT !.nConn = fresh], fresh, fresh)

\* createInfuraClient({ network, projectId }) succeeds
createInfuraClient(type, projectId) == projectId # Undef

_configureInfuraProvider(this, type, projectId) ==
  IF createInfuraClient(type, projectId)
    THEN _setNetworkClient(this)
    ELSE throw(this)

_configureStandardProvider(this, rpcUrl, chainId) == _setNetworkClient(this)

_configureProvider(this, opts) ==
  IF opts.type \in INFURA_PROVIDER_TYPES
    THEN _configureInfuraProvider(this, opts.type, this._infuraProjectId)
  ELSE IF opts.type = NETWORK_TYPE_RPC
    THEN _configureStandardProvider(this, opts.rpcUrl, opts.chainId)
  ELSE throw(this)

\* faulty variant: the status is not reset
_switchNetwork_NoLoading(this, opts) ==
  LET s1 == emit(this, NETWORK_EVENTS.NETWORK_WILL_CHANGE, Undef)
      s3 == _configureProvider(s1, opts)
  IN IF s3.ok
       THEN emit(s3, NETWORK_EVENTS.NETWORK_DID_CHANGE, opts.type)
       ELSE s3

\* faulty variant: NETWORK_WILL_CHANGE is emitted after the status is reset
_switchNetwork_LateWillChange(this, opts) ==
  LET s1 == setNetworkState(this, "loading")
      s2 == emit(s1, NETWORK_EVENTS.NETWORK_WILL_CHANGE, Undef)
      s3 == _configureProvider(s2, opts)
  IN IF s3.ok
       THEN emit(s3, NETWORK_EVENTS.NETWORK_DID_CHANGE, opts.type)
       ELSE s3

_switchNetwork(this, opts) ==
  LET s1 == emit(this, NETWORK_EVENTS.NETWORK_WILL_CHANGE, Undef)
      s2 == setNetworkState(s1, "loading")
      s3 == _configureProvider(s2, opts)
  IN IF s3.ok
       THEN emit(s3, NETWORK_EVENTS.NETWORK_DID_CHANGE, opts.type)
       ELSE s3

\* faulty variant: the previous config is saved after the current one is replaced
setProviderConfig_SavedLate(this, config) ==
  LET s1 == [this EXCEPT !.provider = updateState(@, config)]
      s2 == [s1 EXCEPT
               !.previous = updateState(@, getProviderConfig(s1))]
  IN _switchNetwork(s2, config)

setProviderConfig(this, config) ==
  LET s1 == [this EXCEPT
               !.previous = updateState(@, getProviderConfig(this))]
      s2 == [s1 EXCEPT !.provider = updateState(@, config)]
  IN _switchNetwork(s2, config)

\* a default parameter value applies when the argument is undefined
Default(arg, dflt) == IF arg = Undef THEN dflt ELSE arg

\* faulty variant: rpcUrl and chainId change places
RpcConfig_Swapped(rpcUrl, chainId, ticker, nickname, rpcPrefs) ==
  [type |-> NETWORK_TYPE_RPC, rpcUrl |-> chainId, chainId |-> rpcUrl,
   ticker |-> Default(ticker, "STC"), nickname |-> Default(nickname, ""),
   rpcPrefs |-> rpcPrefs]

\* the config object setRpcTarget builds
RpcConfig(rpcUrl, chainId, ticker, nickname, rpcPrefs) ==
  [type |-> NETWORK_TYPE_RPC, rpcUrl |-> rpcUrl, chainId |-> chainId,
   ticker |-> Default(ticker, "STC"), nickname |-> Default(nickname, ""),
   rpcPrefs |-> rpcPrefs]

\* faulty variant: the numerical check is missing
setRpcTarget_NoSafeCheck(this, rpcUrl, chainId, ticker, nickname, rpcPrefs) ==
  IF ~isPrefixedFormattedHexString(chainId) THEN throw(this)
  ELSE setProviderConfig(this,
         RpcConfig(rpcUrl, chainId, ticker, nickname, rpcPrefs))

setRpcTarget(this, rpcUrl, chainId, ticker, nickname, rpcPrefs) ==
  IF ~isPrefixedFormattedHexString(chainId) THEN throw(this)
  ELSE IF ~isSafeChainId(parseInt16(chainId)) THEN throw(this)
  ELSE setProviderConfig(this,
         RpcConfig(rpcUrl, chainId, ticker, nickname, rpcPrefs))

\* the config object setProviderType builds
\* faulty variant: the config is built without the chain id of the type
TypeConfig_NoChainId(type, rpcUrl, ticker, nickname) ==
  [type |-> type, rpcUrl |-> Default(rpcUrl, ""),
   chainId |-> Absent,
   ticker |-> Default(ticker, "STC"), nickname |-> Default(nickname, ""),
   rpcPrefs |-> Absent]

TypeConfig(type, rpcUrl, ticker, nickname) ==
  [type |-> type, rpcUrl |-> Default(rpcUrl, ""),
   chainId |-> NETWORK_TYPE_TO_ID_MAP(type),
   ticker |-> Default(ticker, "STC"), nickname |-> Default(nickname, ""),
   rpcPrefs |-> Absent]

\* faulty variant: only the custom-RPC type is refused
setProviderType_NoTypeCheck(this, type, rpcUrl, ticker, nickname) ==
  IF type = NETWORK_TYPE_RPC THEN throw(this)
  ELSE setProviderConfig(this, TypeConfig(type, rpcUrl, ticker, nickname))

setProviderType(this, type, rpcUrl, ticker, nickname) ==
  IF type = NETWORK_TYPE_RPC THEN throw(this)
  ELSE IF type \notin INFURA_PROVIDER_TYPES THEN throw(this)
  ELSE setProviderConfig(this, TypeConfig(type, rpcUrl, ticker, nickname))

resetConnection(this) == setProviderConfig(this, getProviderConfig(this))

rollbackToPreviousProvider(this) ==
  LET config == this.previous
      s1 == [this EXCEPT !.provider = updateState(@, config)]
  IN _switchNetwork(s1, config)

setInfuraProjectId(this, projectId) ==
  IF projectId \in {Undef, ""} THEN throw(this)
  ELSE [this EXCEPT !._infuraProjectId = projectId]

initializeProvider(this, providerParams) ==
  LET s1 == [this EXCEPT !._baseProviderParams = providerParams]
      s2 == _configureProvider(s1, getProviderConfig(s1))
  IN IF s2.ok THEN lookupNetwork(s2) ELSE s2

\* faulty variant: the status is not looked at
verifyNetwork_Always(this) == lookupNetwork(this)

verifyNetwork(this) ==
  IF isNetworkLoading(this) THEN lookupNetwork(this) ELSE this

(***************************************************************************)
(* Arguments the operations are called with.                               *)
(***************************************************************************)
RpcUrlInputs == {LOCALHOST_URL}
ChainIdInputs == {"0xfe", "0x1", "fe", "0x20000000000000"}
TickerInputs == {Undef}
NicknameInputs == {Undef}
RpcPrefsInputs == {"prefs"}
\* <<type, rpcUrl, nickname>> of the calls of setProviderType: a managed
\* endpoint with the default arguments, and the types it refuses with and
\* without the other arguments
TypeInputs ==
  ({MAINNET} \X {Undef} \X {Undef})
    \cup ({NETWORK_TYPE_RPC, "unknown"} \X {Undef, LOCALHOST_URL}
            \X {Undef, "nick"})
ProjectIdInputs == {"project-id"}

NoProbe == [initialNetwork |-> "", conn |-> 0]

SwitchOps == {"setRpcTarget", "setProviderType", "resetConnection",
              "rollbackToPreviousProvider"}

(***************************************************************************)
(* Initial state: the controller right after its constructor, built        *)
(* without opts.provider.                                                  *)
(***************************************************************************)
Init ==
  /\ providerStore \in defaultProviderConfig
  /\ previousProviderStore = providerStore
  /\ networkStore = "loading"
  /\ _provider = 0
  /\ _blockTracker = 0
  /\ _providerProxy = NullProxy
  /\ _blockTrackerProxy = NullProxy
  /\ _infuraProjectId = Undef
  /\ _baseProviderParams = Undef
  /\ probes = EmptyBag
  /\ nConn = 0
  /\ emitted = <<>>
  /\ statusBy = 0
  /\ lastOp = [name |-> "constructor", ok |-> TRUE, arg |-> "",
               config |-> NoConfig, probe |-> NoProbe,
               before |-> NoConfig, network |-> ""]
  /\ quiet = FALSE

\* the controller right after its constructor, built with opts.provider
InitSupplied ==
  /\ providerStore \in suppliedProviderConfig
  /\ previousProviderStore = providerStore
  /\ networkStore = "loading"
  /\ _provider = 0
  /\ _blockTracker = 0
  /\ _providerProxy = NullProxy
  /\ _blockTrackerProxy = NullProxy
  /\ _infuraProjectId = Undef
  /\ _baseProviderParams = Undef
  /\ probes = EmptyBag
  /\ nConn = 0
  /\ emitted = <<>>
  /\ statusBy = 0
  /\ lastOp = [name |-> "constructor", ok |-> TRUE, arg |-> "",
               config |-> NoConfig, probe |-> NoProbe,
               before |-> NoConfig, network |-> ""]
  /\ quiet = FALSE

\* the controller becomes after; the call is recorded in the history
Do(name, arg, config, probe, after) ==
  /\ after.nConn <= MaxConn
  /\ BagCardinality(after.probes) <= MaxProbes
  /\ providerStore' = after.provider
  /\ previousProviderStore' = after.previous
  /\ networkStore' = after.network
  /\ statusBy' = after.statusBy
  /\ _provider' = after._provider
  /\ _blockTracker' = after._blockTracker
  /\ _providerProxy' = after._providerProxy
  /\ _blockTrackerProxy' = after._blockTrackerProxy
  /\ _infuraProjectId' = after._infuraProjectId
  /\ _baseProviderParams' = after._baseProviderParams
  /\ probes' = after.probes
  /\ nConn' = after.nConn
  /\ emitted' = after.emitted
  /\ lastOp' = [name |-> name, ok |-> after.ok, arg |-> arg,
                config |-> IF after.ok THEN config ELSE NoConfig,
                probe |-> probe,
                before |-> IF name \in SwitchOps /\ after.ok
                             THEN providerStore ELSE NoConfig,
                network |-> IF \/ name \in SwitchOps /\ after.ok
                               \/ name \in {"lookupNetwork", "response"}
                              THEN networkStore ELSE ""]
  /\ quiet' = quiet

SetRpcTarget ==
  \E rpcUrl \in RpcUrlInputs, chainId \in ChainIdInputs,
     ticker \in TickerInputs, nickname \in NicknameInputs,
     rpcPrefs \in RpcPrefsInputs :
    Do("setRpcTarget", chainId,
       RpcConfig(rpcUrl, chainId, ticker, nickname, rpcPrefs), NoProbe,
       setRpcTarget(This, rpcUrl, chainId, ticker, nickname,
                    rpcPrefs))

SetProviderType ==
  \E call \in TypeInputs :
    LET type == call[1]
        rpcUrl == call[2]
        nickname == call[3]
    IN Do("setProviderType", type,
          TypeConfig(type, rpcUrl, Undef, nickname), NoProbe,
          setProviderType(This, type, rpcUrl, Undef, nickname))

ResetConnection ==
  Do("resetConnection", "", providerStore, NoProbe,
     resetConnection(This))

RollbackToPreviousProvider ==
  Do("rollbackToPreviousProvider", "", previousProviderStore, NoProbe,
     rollbackToPreviousProvider(This))

SetInfuraProjectId ==
  \E projectId \in ProjectIdInputs :
    Do("setInfuraProjectId", projectId, NoConfig, NoProbe,
       setInfuraProjectId(This, projectId))

\* called once, by the application's start-up code
InitializeProvider ==
  /\ _baseProviderParams = Undef
  /\ Do("initializeProvider", "", NoConfig, NoProbe,
        initializeProvider(This, "providerParams"))

VerifyNetwork ==
  Do("verifyNetwork", "", NoConfig, NoProbe,
     verifyNetwork(This))

LookupNetwork ==
  Do("lookupNetwork", "", NoConfig, NoProbe,
     lookupNetwork(This))

\* the response to one of the requests in flight arrives, in any order
ProbeResponse ==
  \E probe \in BagToSet(probes), outcome \in {"error"} \cup Versions :
    LET rest == probes (-) SetToBag({probe})
    IN Do("response", outcome, NoConfig, probe,
          lookupNetworkCallback([This EXCEPT !.probes = rest],
                                probe, outcome = "error", outcome))

Next ==
  \/ SetRpcTarget
  \/ SetProviderType
  \/ ResetConnection
  \/ RollbackToPreviousProvider
  \/ SetInfuraProjectId
  \/ InitializeProvider
  \/ VerifyNetwork
  \/ LookupNetwork
  \/ ProbeResponse

Spec == Init /\ [][Next]_vars

\* the same controller built from a saved config
SpecSupplied == InitSupplied /\ [][Next]_vars

\* the callers make no call after the switch that has just returned
Quiesce ==
  /\ ~quiet
  /\ lastOp.name \in SwitchOps
  /\ lastOp.ok
  /\ quiet' = TRUE
  /\ UNCHANGED <<providerStore, previousProviderStore, networkStore,
                 _provider, _blockTracker, _providerProxy,
                 _blockTrackerProxy, _infuraProjectId, _baseProviderParams,
                 probes, nConn, emitted, statusBy, lastOp>>

\* a response after the last call: the endpoint of the installed
\* connection answers with a version, the older ones with anything
QuietResponse ==
  /\ quiet
  /\ ProbeResponse
  /\ lastOp'.probe.conn = _provider => lastOp'.arg \in Versions

NextQuiet ==
  \/ ~quiet /\ Next
  \/ Quiesce
  \/ QuietResponse

\* the controller with callers that stop after some switch; every request
\* in flight gets its response
SpecQuiet == Init /\ [][NextQuiet]_vars /\ WF_vars(ProbeResponse)

(***************************************************************************)
(* Properties.                                                             *)
(***************************************************************************)
SetterOps == {"setRpcTarget", "setProviderType"}

\* the chain id argument passes both checks of setRpcTarget
ValidChainId(chainId) ==
  /\ isPrefixedFormattedHexString(chainId)
  /\ isSafeChainId(parseInt16(chainId))

\* the step is a switch that returned normally
SwitchStep == lastOp'.name \in SwitchOps /\ lastOp'.ok

\* the step processes the response to a request that captured 'loading'
\* while the status is the answer to a request of a later connection
StaleResponseStep ==
  /\ lastOp'.name = "response"
  /\ lastOp'.probe.initialNetwork = "loading"
  /\ networkStore # "loading"
  /\ statusBy > lastOp'.probe.conn

\* C1: a switch sends its request through the connection it has just
\* installed, with 'loading' as the captured status; and when the response
\* to such a request arrives after the status has been set to the answer of
\* a later switch's request, the response (success or error) leaves the
\* network status, and the request it came from, unchanged.
C1_StaleProbeLeavesStatus ==
  [][/\ SwitchStep =>
          /\ _provider' = nConn'
          /\ nConn' = nConn + 1
          /\ probes' = probes (+) SetToBag({[initialNetwork |-> "loading",
                                             conn |-> _provider']})
     /\ StaleResponseStep =>
          /\ networkStore' = networkStore
          /\ statusBy' = statusBy]_vars

\* two switches and no initializeProvider, so that both connections were
\* installed by switches; the second request was answered first and the
\* response to the first one has just been processed
C1_Witness ==
  /\ lastOp.name = "response"
  /\ lastOp.probe = [initialNetwork |-> "loading", conn |-> 1]
  /\ _baseProviderParams = Undef
  /\ nConn = 2
  /\ statusBy = 2
  /\ networkStore \in Versions

\* C2: the response to the request of the newest switch is never discarded
\* because the response of a request of an older connection was applied
\* first: when it reports a version while the status is the answer of an
\* older connection, the status becomes its answer; and the response of an
\* older request does not change a status set by a newer one.
C2_NewerProbeNeverClobbered ==
  [][/\ ( /\ lastOp'.name = "response"
          /\ lastOp'.arg \in Versions
          /\ lastOp'.probe = [initialNetwork |-> "loading",
                              conn |-> _provider]
          /\ statusBy # 0
          /\ statusBy < _provider )
        => ( /\ networkStore' = lastOp'.arg
             /\ statusBy' = _provider )
     /\ StaleResponseStep =>
          /\ networkStore' = networkStore
          /\ statusBy' = statusBy]_vars

\* C3: right after a switch has returned normally, and until the next
\* operation or response, the network status is 'loading'.
C3_LoadingAfterSwitch ==
  (lastOp.name \in SwitchOps /\ lastOp.ok) => networkStore = "loading"

\* a switch made while the status was a reported version
C3_Witness ==
  /\ lastOp.name \in SwitchOps
  /\ lastOp.ok
  /\ lastOp.network \in Versions
  /\ networkStore = "loading"

\* C4: a switch keeps the two proxies that getProviderAndBlockTracker
\* returns (once they exist, their identity never changes), and after the
\* switch each proxy targets the connection the switch created, which is the
\* controller's _provider / _blockTracker.
C4_ProxyIdentityKept ==
  [][SwitchStep =>
       LET before == getProviderAndBlockTracker(This)
           after == [provider |-> _providerProxy',
                     blockTracker |-> _blockTrackerProxy']
       IN /\ before.provider.id # 0 => after.provider.id = before.provider.id
          /\ before.blockTracker.id # 0
               => after.blockTracker.id = before.blockTracker.id
          /\ after.provider.id # 0
          /\ after.blockTracker.id # 0
          /\ nConn' = nConn + 1
          /\ _provider' = nConn'
          /\ _blockTracker' = nConn'
          /\ after.provider.target = _provider'
          /\ after.blockTracker.target = _blockTracker']_vars

\* the proxies created with the first connection now target the second
C4_Witness ==
  /\ lastOp.name \in SwitchOps
  /\ lastOp.ok
  /\ _providerProxy = [id |-> 1, target |-> 2]
  /\ _blockTrackerProxy = [id |-> 1, target |-> 2]

\* C5: rollbackToPreviousProvider right after one setter switch makes the
\* current config equal, key by key, to the config that was current before
\* that switch.
C5_RollbackRestoresConfig ==
  [][( /\ lastOp'.name = "rollbackToPreviousProvider"
       /\ lastOp'.ok
       /\ lastOp.name \in SetterOps
       /\ lastOp.ok )
     => providerStore' = lastOp.before]_vars

\* the state the controller is left in by a call that threw before doing
\* anything: stores, connection, proxies and requests in flight as before,
\* and no event emitted
NothingMutated ==
  /\ ~lastOp'.ok
  /\ UNCHANGED <<providerStore, previousProviderStore, networkStore,
                 statusBy, _provider, _blockTracker, _providerProxy,
                 _blockTrackerProxy, probes, nConn>>
  /\ emitted' = <<>>

\* C6: setRpcTarget with a chain id that is not a 0x-prefixed hex string,
\* or whose value exceeds the safe bound, throws and mutates nothing.
C6_InvalidChainIdRejected ==
  [][(lastOp'.name = "setRpcTarget" /\ ~ValidChainId(lastOp'.arg))
     => NothingMutated]_vars

\* a chain id above the safe bound was rejected after a switch and an answer
C6_Witness ==
  /\ lastOp.name = "setRpcTarget"
  /\ ~lastOp.ok
  /\ lastOp.arg = "0x20000000000000"
  /\ networkStore \in Versions
  /\ BagCardinality(probes) = 1

\* C7: setProviderType with the custom-RPC type, or with a type outside
\* the managed-endpoint names, fails and mutates nothing.
C7_InvalidTypeRejected ==
  [][( /\ lastOp'.name = "setProviderType"
       /\ \/ lastOp'.arg = NETWORK_TYPE_RPC
          \/ lastOp'.arg \notin INFURA_PROVIDER_TYPES )
     => NothingMutated]_vars

\* the custom-RPC type was rejected in a state where a managed switch works
C7_Witness ==
  /\ lastOp.name = "setProviderType"
  /\ ~lastOp.ok
  /\ lastOp.arg = NETWORK_TYPE_RPC
  /\ _infuraProjectId # Undef
  /\ _provider # 0

\* C8: setRpcTarget with a valid chain id returns normally, and the
\* current config then has the custom-RPC type, the given rpcUrl and the
\* given chain id.
C8_ValidChainIdAccepted ==
  (lastOp.name = "setRpcTarget" /\ ValidChainId(lastOp.arg))
    => /\ lastOp.ok
       /\ getProviderConfig(This).type = NETWORK_TYPE_RPC
       /\ getProviderConfig(This).rpcUrl \in RpcUrlInputs
       /\ getProviderConfig(This).chainId = lastOp.arg

\* a managed config replaced by a custom endpoint on chain 0x1
C8_Witness ==
  /\ lastOp.name = "setRpcTarget"
  /\ lastOp.ok
  /\ lastOp.arg = "0x1"
  /\ lastOp.before.type \in INFURA_PROVIDER_TYPES
  /\ providerStore.chainId = "0x1"

\* C9: after a setter switch the current config is exactly the config
\* the setter built: no key of the earlier config survives.
C9_ConfigReplacedWholesale ==
  (lastOp.name \in SetterOps /\ lastOp.ok)
    => getProviderConfig(This) = lastOp.config

\* C10: after a switch through a setter or resetConnection the previous
\* config slot is the config that was current right before the call; after
\* resetConnection it is therefore the current config.
C10_SlotHoldsConfigBefore ==
  /\ (lastOp.name \in SetterOps \cup {"resetConnection"} /\ lastOp.ok)
       => previousProviderStore = lastOp.before
  /\ (lastOp.name = "resetConnection" /\ lastOp.ok)
       => previousProviderStore = providerStore

\* resetConnection after a switch to chain 0x1: the slot, which held the
\* initial config, now holds the current one
C10_Witness ==
  /\ lastOp.name = "resetConnection"
  /\ lastOp.ok
  /\ nConn = 2
  /\ providerStore.chainId = "0x1"
  /\ providerStore.type = NETWORK_TYPE_RPC
  /\ previousProviderStore = providerStore

\* C11: rollbackToPreviousProvider leaves the previous config slot as it
\* was, so that after it the current config equals the slot; a second
\* rollback in a row leaves the config unchanged and still switches: status
\* 'loading', a new connection, both events.
C11_RollbackKeepsSlot ==
  [][( /\ lastOp'.name = "rollbackToPreviousProvider"
       /\ lastOp'.ok )
     => /\ previousProviderStore' = previousProviderStore
        /\ providerStore' = previousProviderStore'
        /\ ( lastOp.name = "rollbackToPreviousProvider" /\ lastOp.ok )
             => /\ providerStore' = providerStore
                /\ networkStore' = "loading"
                /\ _provider' = nConn + 1
                /\ Len(emitted') = 2]_vars

\* the step is a switch onto a managed endpoint made while no project id
\* has been set
ManagedSwitchWithoutProjectId ==
  /\ _infuraProjectId = Undef
  /\ \/ /\ lastOp'.name = "setProviderType"
        /\ lastOp'.arg \in INFURA_PROVIDER_TYPES
     \/ /\ lastOp'.name \in {"resetConnection", "initializeProvider"}
        /\ providerStore.type \in INFURA_PROVIDER_TYPES
     \/ /\ lastOp'.name = "rollbackToPreviousProvider"
        /\ previousProviderStore.type \in INFURA_PROVIDER_TYPES

\* C12: a switch onto a managed endpoint made before setInfuraProjectId
\* fails with an error, installs no connection and leaves the controller
\* state (stores, status, connection, requests, events) as before the call.
C12_ManagedSwitchFailsClosed ==
  [][ManagedSwitchWithoutProjectId
     => /\ ~lastOp'.ok
        /\ UNCHANGED <<_provider, _blockTracker, nConn>>
        /\ NothingMutated]_vars

\* the request lookupNetwork would send in the current state
RequestNow == [initialNetwork |-> networkStore, conn |-> _provider]

\* C13: verifyNetwork changes no store, connection or event; when the
\* status is not 'loading' it sends no request either, and when the status
\* is 'loading' (with a connection and a chain id) it sends exactly one
\* more request, whatever is already in flight.
C13_VerifyNetworkOnlyWhenLoading ==
  [][lastOp'.name = "verifyNetwork"
     => /\ lastOp'.ok
        /\ UNCHANGED <<providerStore, previousProviderStore, networkStore,
                       _provider, _blockTracker, _providerProxy,
                       _blockTrackerProxy, nConn>>
        /\ emitted' = <<>>
        /\ networkStore # "loading" => probes' = probes
        /\ ( /\ networkStore = "loading"
             /\ _provider # 0
             /\ ~Falsy(getCurrentChainId(This)) )
             => probes' = probes (+) SetToBag({RequestNow})]_vars

\* verifyNetwork has just sent a second request next to one in flight
C13_Witness ==
  /\ lastOp.name = "verifyNetwork"
  /\ networkStore = "loading"
  /\ CopiesIn([initialNetwork |-> "loading", conn |-> _provider], probes) = 2

\* C14: a switch that returns has emitted exactly NETWORK_WILL_CHANGE and
\* then NETWORK_DID_CHANGE(type); the listener of the first saw the status
\* and the connection of before the switch, the listener of the second saw
\* the status 'loading' and the connection the switch installed.
C14_SwitchEventOrder ==
  [][SwitchStep
     => /\ _provider' = nConn + 1
        /\ _providerProxy'.target = _provider'
        /\ emitted' =
             << [event |-> NETWORK_EVENTS.NETWORK_WILL_CHANGE,
                 arg |-> Undef,
                 network |-> networkStore, _provider |-> _provider],
                [event |-> NETWORK_EVENTS.NETWORK_DID_CHANGE,
                 arg |-> providerStore'.type,
                 network |-> "loading", _provider |-> _provider'] >>]_vars

\* a switch away from a connection whose status was a version
C14_Witness ==
  /\ lastOp.name \in SwitchOps
  /\ lastOp.ok
  /\ Len(emitted) = 2
  /\ emitted[1].network \in Versions
  /\ emitted[1]._provider = 1
  /\ emitted[2]._provider = 2
  /\ emitted[2].network = "loading"

\* C15: a switch that returns, onto a config with a chain id, leaves
\* exactly one more request in flight than before, sent through the
\* connection it installed and with 'loading' as the captured status.
C15_SwitchSendsOneProbe ==
  [][(SwitchStep /\ ~Falsy(getCurrentChainId(This)'))
     => /\ BagCardinality(probes') = BagCardinality(probes) + 1
        /\ \A p \in BagToSet(probes') :
             CopiesIn(p, probes') =
               CopiesIn(p, probes)
                 + (IF p = [initialNetwork |-> "loading", conn |-> nConn']
                      THEN 1 ELSE 0)
        /\ nConn' \notin {p.conn : p \in BagToSet(probes)}]_vars

\* the switch has added its request to one of the previous connection
C15_Witness ==
  /\ lastOp.name \in SwitchOps
  /\ lastOp.ok
  /\ BagCardinality(probes) = 2
  /\ CopiesIn([initialNetwork |-> "loading", conn |-> _provider], probes) = 1
  /\ \E p \in BagToSet(probes) : p.conn < _provider

\* C16: lookupNetwork sends no request in its two guard cases: without a
\* provider it changes nothing; with a provider and a config that resolves
\* to no chain id it sets the status to 'loading' and changes nothing else.
C16_LookupNetworkGuards ==
  [][lastOp'.name = "lookupNetwork"
     => /\ lastOp'.ok
        /\ emitted' = <<>>
        /\ UNCHANGED <<providerStore, previousProviderStore, _provider,
                       _blockTracker, _providerProxy, _blockTrackerProxy,
                       nConn>>
        /\ _provider = 0 => UNCHANGED <<networkStore, statusBy, probes>>
        /\ (_provider # 0 /\ Falsy(getCurrentChainId(This)))
             => /\ networkStore' = "loading"
                /\ probes' = probes]_vars

\* lookupNetwork found no chain id while the status was a version
C16_Witness ==
  /\ lastOp.name = "lookupNetwork"
  /\ lastOp.network \in Versions
  /\ _provider # 0
  /\ Falsy(getCurrentChainId(This))
  /\ networkStore = "loading"

\* the step processes the response to a request
ResponseStep == lastOp'.name = "response"

\* the status is 'loading' or a reported version, never a failure value
StatusValues == {"loading"} \cup Versions

\* C17 as stated: the status changes only at a switch start, to 'loading',
\* or at the response to a request, from 'loading' to 'loading' or to the
\* reported version; a response never changes a status that is a version;
\* the status is never a failure value.
C17_StatusMachineAsStated ==
  [][/\ networkStore' \in StatusValues
     /\ networkStore' # networkStore
          => \/ lastOp'.name \in SwitchOps /\ networkStore' = "loading"
             \/ /\ ResponseStep
                /\ networkStore = "loading"
                /\ networkStore' \in StatusValues
     /\ (ResponseStep /\ networkStore \in Versions)
          => networkStore' = networkStore]_vars

\* C17, amended: the status changes only at a switch start, to 'loading';
\* at a lookupNetwork that finds no chain id, to 'loading'; or at the
\* response to a request that captured the status as it still is, to
\* 'loading' for an error and to the reported version for a success, so a
\* request sent while the status was a version can take it back to
\* 'loading'.  A response to a request that captured another status changes
\* nothing, and the status is never a failure value.
C17_StatusMachine ==
  [][/\ networkStore' \in StatusValues
     /\ networkStore' # networkStore
          => \/ lastOp'.name \in SwitchOps /\ networkStore' = "loading"
             \/ /\ lastOp'.name \in {"lookupNetwork", "initializeProvider"}
                /\ Falsy(getCurrentChainId(This))
                /\ networkStore' = "loading"
             \/ /\ ResponseStep
                /\ lastOp'.probe.initialNetwork = networkStore
                /\ networkStore' = IF lastOp'.arg = "error"
                                     THEN "loading" ELSE lastOp'.arg
     /\ (ResponseStep /\ lastOp'.probe.initialNetwork # networkStore)
          => networkStore' = networkStore]_vars

\* an error response to a request that lookupNetwork sent while the status
\* was a version has taken the status back to 'loading'
C17_Witness ==
  /\ lastOp.name = "response"
  /\ lastOp.arg = "error"
  /\ lastOp.probe.initialNetwork \in Versions
  /\ lastOp.network = lastOp.probe.initialNetwork
  /\ networkStore = "loading"

\* C18: from a default config, whenever the type of the current config is
\* a managed endpoint its chain id is the table's entry for that type, and
\* whenever the type is the custom one its chain id passes both checks of
\* setRpcTarget.
C18_ChainIdMatchesType ==
  /\ providerStore.type \in INFURA_PROVIDER_TYPES \cup {NETWORK_TYPE_RPC}
  /\ providerStore.type \in INFURA_PROVIDER_TYPES
       => providerStore.chainId = NETWORK_TYPE_TO_ID_MAP(providerStore.type)
  /\ providerStore.type = NETWORK_TYPE_RPC
       => ValidChainId(providerStore.chainId)

\* a rollback from a custom endpoint to a managed one with another chain id
C18_Witness ==
  /\ lastOp.name = "rollbackToPreviousProvider"
  /\ lastOp.ok
  /\ lastOp.before.type = NETWORK_TYPE_RPC
  /\ providerStore.type \in INFURA_PROVIDER_TYPES
  /\ lastOp.before.chainId # providerStore.chainId

\* C19: whenever the status is a version, it was reported by the response
\* to a request sent through the connection that is installed now.
C19_StatusFromCurrentConnection ==
  networkStore \in Versions => statusBy = _provider

\* C20: once the callers have stopped after a switch whose request is
\* answered with a version, and every request in flight has got its
\* response, the status is a version (and, no request being left, stays
\* one); and the status leaves 'loading' only at a response, so with an
\* unanswered request and no other in flight it stays 'loading' until
\* another call is made.
C20_EventuallyAvailable ==
  /\ []((quiet /\ probes = EmptyBag) => networkStore \in Versions)
  /\ [][(networkStore = "loading" /\ networkStore' # "loading")
          => ResponseStep]_vars

====
